---- MODULE Spec2Model ----
(***************************************************************************)
(* Model of src/src/services/openai_service.py (ConversationMemory,        *)
(* RateLimiter, AzureOpenAIService: conversation history with trimming,    *)
(* sliding-window rate limiter, retry loop with backoff) and of the HTTP   *)
(* handlers of src/app.py.                                                 *)
(*                                                                         *)
(* The specifications share the variables:                                 *)
(*   Spec         ConversationMemory driven directly by its methods, and   *)
(*                the service's read-only conversation summary             *)
(*   SpecHistory  add_message with user/assistant roles after an optional  *)
(*                set_system_message                                       *)
(*   SpecLimiter  RateLimiter.wait_if_needed called sequentially           *)
(*   SpecChat     AzureOpenAIService, one request at a time                *)
(*   SpecApi      the Flask handlers, one HTTP request at a time           *)
(*   SpecConcurrent      get_chat_response and clear_conversation run by   *)
(*                two request threads on one conversation                  *)
(*   SpecLimiterThreads  wait_if_needed run by two threads                 *)
(*   SpecBot      TeamsBot.on_message_activity, one activity at a time     *)
(*   SpecChatLive get_chat_response calls one after the other on a small   *)
(*                limiter, with fair scheduling of the retry loop          *)
(***************************************************************************)
EXTENDS Integers, Sequences, FiniteSets, TLC

(* ---------------------------- bounds ---------------------------------- *)
\* largest max_history a ConversationMemory is constructed with
MaxHistoryBound == 3
\* longest stored history explored (the code itself has no such cap)
MaxStored == 3
\* largest max_requests_per_minute a RateLimiter is constructed with (SpecLimiter)
MaxLimit == 2
\* number of wait_if_needed calls explored in SpecLimiter
MaxAcquires == 4
\* seconds that may pass between two calls
TickSteps == {10, 30}
\* the clock is explored up to this many seconds
MaxTime == 130
\* largest max_retries passed to get_chat_response
MaxRetriesBound == 3
\* number of get_chat_response calls explored in SpecChat
MaxChatCalls == 2

(* ------------------------ program constants --------------------------- *)
\* the sliding window of RateLimiter.wait_if_needed, in seconds
WINDOW == 60
\* RateLimiter() as constructed by AzureOpenAIService.__init__
DEFAULT_MAX_REQUESTS == 60
\* ConversationMemory() falls back to config.max_conversation_history
DEFAULT_MAX_HISTORY == 10

default_system_message == "You are a helpful AI assistant integrated with Microsoft Teams."
error_message == "I'm sorry, I'm having trouble connecting to my AI service right now. Please try again in a moment."
unexpected_error_message == "I'm sorry, I encountered an unexpected error. Please try again."

\* Python's None
None == "None"
\* add_message called without metadata (metadata=None)
NoMetadata == "no metadata"

ConvIds == {"c1", "c2"}
SystemContents == {"custom system message"}
\* the (role, content, metadata) argument triples add_message is driven with
AddInputs ==
    { <<"user", "Hello", "John">>, <<"user", "m2", NoMetadata>>,
      <<"assistant", "Hi there!", NoMetadata>>, <<"assistant", "r2", NoMetadata>>,
      <<"system", "custom system message", NoMetadata>>,
      <<"user", "Hi", "Ann">> }
\* the (conversation_id, message, user_name, system_message) arguments
\* get_chat_response is driven with
ChatInputs ==
    { <<"c1", "Hello", "John", None>>, <<"c1", "m2", None, "custom system message">>,
      <<"c2", "Hello", "John", None>> }
\* what the external completion call does: returns this reply, or raises
Outcomes == {"Hi there!", "raise"}

VARIABLES
    max_history,      \* ConversationMemory.max_history
    conversations,    \* ConversationMemory._conversations: id -> list of messages
    max_requests,     \* RateLimiter.max_requests
    requests,         \* RateLimiter.requests: list of recorded timestamps
    now,              \* time.time(), in whole seconds
    returns,          \* one record per completed wait_if_needed call, in call order:
                      \* when it was entered, when it returned, how many recorded
                      \* calls it found inside the window
    req,              \* the get_chat_response call in progress (its locals and position)
    chatCalls,        \* per conversation id, the number of get_chat_response calls started
    lastOp            \* the operation that produced this state, its arguments and its result

vars == <<max_history, conversations, max_requests, requests, now, returns, req, chatCalls, lastOp>>

memVars == <<max_history, conversations>>
limVars == <<max_requests, requests, returns>>

(* ------------------------- Python helpers ----------------------------- *)
\* seq[start:] with Python's index normalisation
PySliceFrom(seq, start) ==
    LET n == Len(seq)
        s == IF start < 0
             THEN (IF n + start < 0 THEN 0 ELSE n + start)
             ELSE (IF start > n THEN n ELSE start)
    IN  SubSeq(seq, s + 1, n)

IsSystem(msg) == msg.role = "system"
NotSystem(msg) == msg.role # "system"
IsUser(msg) == msg.role = "user"
IsAssistant(msg) == msg.role = "assistant"

\* msg.get(key)
MsgGet(msg, key) == IF key \in DOMAIN msg THEN msg[key] ELSE None

RECURSIVE SeqMin(_)
SeqMin(seq) ==
    IF Len(seq) = 1 THEN seq[1]
    ELSE LET m == SeqMin(Tail(seq)) IN IF seq[1] < m THEN seq[1] ELSE m

RECURSIVE Pow2(_)
Pow2(n) == IF n = 0 THEN 1 ELSE 2 * Pow2(n - 1)

(* ----------------------- ConversationMemory --------------------------- *)
\* the message dict built by add_message; metadata is absent or {"user_name": metadata}
NewMessage(role, content, metadata, t) ==
    IF metadata = NoMetadata
    THEN [role |-> role, content |-> content, timestamp |-> t]
    ELSE [role |-> role, content |-> content, timestamp |-> t, user_name |-> metadata]

\* a trimming branch that puts the system messages after the others
Trim_others_first(history, maxh) ==
    IF Len(history) > maxh
    THEN LET system_messages == SelectSeq(history, IsSystem)
             other_messages == SelectSeq(history, NotSystem)
         IN  PySliceFrom(other_messages, -(maxh - Len(system_messages))) \o system_messages
    ELSE history

\* a trimming branch entered as soon as the list is max_history long
Trim_at_max(history, maxh) ==
    IF Len(history) >= maxh
    THEN LET system_messages == SelectSeq(history, IsSystem)
             other_messages == SelectSeq(history, NotSystem)
         IN  system_messages \o PySliceFrom(other_messages, -(maxh - Len(system_messages)))
    ELSE history

\* the trimming branch of add_message, applied to the list after the append
Trim(history, maxh) ==
    IF Len(history) > maxh
    THEN LET system_messages == SelectSeq(history, IsSystem)
             other_messages == SelectSeq(history, NotSystem)
         IN  system_messages \o PySliceFrom(other_messages, -(maxh - Len(system_messages)))
    ELSE history

\* a lookup that answers an unknown id with a list holding an empty placeholder
get_conversation_never_empty(convs, id) ==
    IF id \in DOMAIN convs THEN convs[id]
    ELSE <<[role |-> "system", content |-> "", timestamp |-> 0]>>

\* self._conversations.get(conversation_id, [])
get_conversation(convs, id) == IF id \in DOMAIN convs THEN convs[id] ELSE <<>>

\* ConversationMemory.add_message: the new value of _conversations
add_message(convs, maxh, id, role, content, metadata, t) ==
    LET old == IF id \in DOMAIN convs THEN convs[id] ELSE <<>>
        appended == Append(old, NewMessage(role, content, metadata, t))
    IN  [c \in DOMAIN convs \cup {id} |-> IF c = id THEN Trim(appended, maxh) ELSE convs[c]]

\* del d[key]: the dict without key, or KeyError when key is absent
DelItem(convs, id) ==
    IF id \in DOMAIN convs
    THEN [convs |-> [c \in DOMAIN convs \ {id} |-> convs[c]], raised |-> FALSE]
    ELSE [convs |-> convs, raised |-> TRUE]

\* a clear_conversation that empties the list and keeps the key
clear_conversation_keeps_key(convs, id) ==
    IF id \in DOMAIN convs
    THEN [convs |-> [c \in DOMAIN convs |-> IF c = id THEN <<>> ELSE convs[c]], raised |-> FALSE]
    ELSE [convs |-> convs, raised |-> FALSE]

\* ConversationMemory.clear_conversation: the new value of _conversations,
\* and whether the call raised
clear_conversation(convs, id) ==
    IF id \in DOMAIN convs
    THEN DelItem(convs, id)
    ELSE [convs |-> convs, raised |-> FALSE]

\* a set_system_message that inserts without removing the existing system messages
set_system_message_keeps_old(convs, id, content, t) ==
    LET old == IF id \in DOMAIN convs THEN convs[id] ELSE <<>>
        system_message == [role |-> "system", content |-> content, timestamp |-> t]
    IN  [c \in DOMAIN convs \cup {id} |-> IF c = id THEN <<system_message>> \o old ELSE convs[c]]

\* ConversationMemory.set_system_message: the new value of _conversations
set_system_message(convs, id, content, t) ==
    LET old == IF id \in DOMAIN convs THEN convs[id] ELSE <<>>
        kept == SelectSeq(old, NotSystem)
        system_message == [role |-> "system", content |-> content, timestamp |-> t]
    IN  [c \in DOMAIN convs \cup {id} |-> IF c = id THEN <<system_message>> \o kept ELSE convs[c]]

(* --------------------------- RateLimiter ------------------------------ *)
\* min(list): ValueError on an empty list
PyMin(seq) == IF seq = <<>> THEN [raised |-> TRUE, value |-> 0]
              ELSE [raised |-> FALSE, value |-> SeqMin(seq)]

\* a wait_if_needed that already waits when one slot is still free
wait_if_needed_early(reqs, maxr, t) ==
    LET pruned == SelectSeq(reqs, LAMBDA req_time : t - req_time < WINDOW)
        full == Len(pruned) >= maxr - 1
        oldest_request == PyMin(pruned)
        wait_time == WINDOW - (t - oldest_request.value)
    IN  IF full /\ oldest_request.raised
        THEN [requests |-> pruned, slept |-> 0, held |-> Len(pruned), raised |-> TRUE]
        ELSE [requests |-> Append(pruned, t),
              slept |-> IF full /\ wait_time > 0 THEN wait_time ELSE 0,
              held |-> Len(pruned), raised |-> FALSE]

\* a wait_if_needed that lets a call through while len(requests) == max_requests
wait_if_needed_off_by_one(reqs, maxr, t) ==
    LET pruned == SelectSeq(reqs, LAMBDA req_time : t - req_time < WINDOW)
        full == Len(pruned) > maxr
        oldest_request == PyMin(pruned)
        wait_time == WINDOW - (t - oldest_request.value)
    IN  IF full /\ oldest_request.raised
        THEN [requests |-> pruned, slept |-> 0, held |-> Len(pruned), raised |-> TRUE]
        ELSE [requests |-> Append(pruned, t),
              slept |-> IF full /\ wait_time > 0 THEN wait_time ELSE 0,
              held |-> Len(pruned), raised |-> FALSE]

\* RateLimiter.wait_if_needed entered at time t: the new list, the seconds
\* slept, the number of calls found inside the window, and whether min() raised
wait_if_needed(reqs, maxr, t) ==
    LET pruned == SelectSeq(reqs, LAMBDA req_time : t - req_time < WINDOW)
        full == Len(pruned) >= maxr
        oldest_request == PyMin(pruned)
        wait_time == WINDOW - (t - oldest_request.value)
    IN  IF full /\ oldest_request.raised
        THEN [requests |-> pruned, slept |-> 0, held |-> Len(pruned), raised |-> TRUE]
        ELSE [requests |-> Append(pruned, t),
              slept |-> IF full /\ wait_time > 0 THEN wait_time ELSE 0,
              held |-> Len(pruned), raised |-> FALSE]

\* state after RateLimiter(max_requests_per_minute=n), n >= 1
InitLimiter ==
    /\ max_requests \in 1..MaxLimit
    /\ requests = <<>>
    /\ returns = <<>>

\* one call of RateLimiter.wait_if_needed, its sleep included
WaitIfNeeded ==
    LET r == wait_if_needed(requests, max_requests, now) IN
    /\ Len(returns) < MaxAcquires
    /\ ~r.raised
    /\ requests' = r.requests
    /\ now' = now + r.slept
    /\ returns' = Append(returns, [start |-> now, ret |-> now + r.slept, held |-> r.held])
    /\ lastOp' = [op |-> "wait_if_needed", slept |-> r.slept]
    /\ UNCHANGED <<max_requests, memVars, req, chatCalls>>

\* time passes between calls
Tick(d) ==
    /\ now + d <= MaxTime
    /\ now' = now + d
    /\ UNCHANGED <<memVars, limVars, req, chatCalls, lastOp>>

NoReq == [pc |-> "idle"]
NoOp == [op |-> "init"]

\* state after ConversationMemory(max_history=m), m >= 1
InitMemory ==
    /\ max_history \in 1..MaxHistoryBound
    /\ conversations = <<>>

\* number of messages stored over all conversations
RECURSIVE TotalStored(_)
TotalStored(convs) ==
    IF DOMAIN convs = {} THEN 0
    ELSE LET c == CHOOSE x \in DOMAIN convs : TRUE
         IN  Len(convs[c]) + TotalStored([d \in DOMAIN convs \ {c} |-> convs[d]])

\* ConversationMemory.add_message(id, role, content, metadata)
AddMessage(id, role, content, metadata) ==
    /\ TotalStored(add_message(conversations, max_history, id, role, content, metadata, now)) <= MaxStored
    /\ conversations' = add_message(conversations, max_history, id, role, content, metadata, now)
    /\ lastOp' = [op |-> "add_message", id |-> id, role |-> role, content |-> content,
                  message |-> NewMessage(role, content, metadata, now),
                  before |-> get_conversation(conversations, id)]
    /\ UNCHANGED <<max_history, limVars, now, req, chatCalls>>

\* ConversationMemory.set_system_message(id, content)
SetSystemMessage(id, content) ==
    /\ TotalStored(set_system_message(conversations, id, content, now)) <= MaxStored
    /\ conversations' = set_system_message(conversations, id, content, now)
    /\ lastOp' = [op |-> "set_system_message", id |-> id, content |-> content,
                  before |-> get_conversation(conversations, id)]
    /\ UNCHANGED <<max_history, limVars, now, req, chatCalls>>

\* ConversationMemory.clear_conversation(id)
ClearConversation(id) ==
    /\ conversations' = clear_conversation(conversations, id).convs
    /\ lastOp' = [op |-> "clear_conversation", id |-> id,
                  existed |-> id \in DOMAIN conversations,
                  raised |-> clear_conversation(conversations, id).raised,
                  before |-> get_conversation(conversations, id),
                  beforeAll |-> conversations]
    /\ UNCHANGED <<max_history, limVars, now, req, chatCalls>>

\* ConversationMemory.get_conversation(id): reads, changes nothing
GetConversation(id) ==
    /\ lastOp' = [op |-> "get_conversation", id |-> id,
                  result |-> get_conversation(conversations, id)]
    /\ UNCHANGED <<memVars, limVars, now, req, chatCalls>>

Init ==
    /\ InitMemory
    /\ max_requests = DEFAULT_MAX_REQUESTS
    /\ requests = <<>>
    /\ returns = <<>>
    /\ now = 0
    /\ req = NoReq
    /\ chatCalls = [c \in ConvIds |-> 0]
    /\ lastOp = NoOp

(* ------------------------ AzureOpenAIService -------------------------- *)
\* Python truthiness of an Optional[str]
Truthy(x) == x # None /\ x # ""

\* a get_chat_response that builds the API message list before it stores the
\* user message
chat_prepare_stale_messages(convs, maxh, id, message, user_name, system_message, t) ==
    LET convs1 == IF Truthy(system_message) \/ id \notin DOMAIN convs
                  THEN set_system_message(convs, id,
                           IF Truthy(system_message) THEN system_message
                           ELSE default_system_message, t)
                  ELSE convs
        convs2 == add_message(convs1, maxh, id, "user", message, user_name, t)
        conversation_history == get_conversation(convs1, id)
    IN  [convs |-> convs2,
         messages |-> [i \in 1..Len(conversation_history) |->
                          [role |-> conversation_history[i].role,
                           content |-> conversation_history[i].content]]]

\* a get_chat_response that sets a system message only when one is supplied
chat_prepare_no_default(convs, maxh, id, message, user_name, system_message, t) ==
    LET convs1 == IF Truthy(system_message)
                  THEN set_system_message(convs, id, system_message, t)
                  ELSE convs
        convs2 == add_message(convs1, maxh, id, "user", message, user_name, t)
        conversation_history == get_conversation(convs2, id)
    IN  [convs |-> convs2,
         messages |-> [i \in 1..Len(conversation_history) |->
                          [role |-> conversation_history[i].role,
                           content |-> conversation_history[i].content]]]

\* get_chat_response up to the retry loop (system message, user message, the
\* message list for the API): the new _conversations and the list
chat_prepare(convs, maxh, id, message, user_name, system_message, t) ==
    LET convs1 == IF Truthy(system_message) \/ id \notin DOMAIN convs
                  THEN set_system_message(convs, id,
                           IF Truthy(system_message) THEN system_message
                           ELSE default_system_message, t)
                  ELSE convs
        convs2 == add_message(convs1, maxh, id, "user", message, user_name, t)
        conversation_history == get_conversation(convs2, id)
    IN  [convs |-> convs2,
         messages |-> [i \in 1..Len(conversation_history) |->
                          [role |-> conversation_history[i].role,
                           content |-> conversation_history[i].content]]]

\* the try body after a completion was received: store it and return it
on_success(convs, maxh, id, assistant_message, t) ==
    [convs |-> add_message(convs, maxh, id, "assistant", assistant_message, NoMetadata, t),
     pc |-> "done", result |-> assistant_message]

\* an except clause that stores the apology after every failed attempt
except_handler_stores_each_failure(convs, maxh, id, attempt, max_retries, t) ==
    [convs |-> add_message(convs, maxh, id, "assistant", error_message, NoMetadata, t),
     pc |-> IF attempt = max_retries - 1 THEN "done" ELSE "backoff",
     result |-> IF attempt = max_retries - 1 THEN error_message ELSE None]

\* an except clause that gives up after the first failure
except_handler_no_retry(convs, maxh, id, attempt, max_retries, t) ==
    [convs |-> add_message(convs, maxh, id, "assistant", error_message, NoMetadata, t),
     pc |-> "done", result |-> error_message]

\* an except clause that re-raises after the last attempt
except_handler_reraises(convs, maxh, id, attempt, max_retries, t) ==
    IF attempt = max_retries - 1
    THEN [convs |-> convs, pc |-> "raised", result |-> None]
    ELSE [convs |-> convs, pc |-> "backoff", result |-> None]

\* an except clause that goes on to the backoff sleep after the last attempt too
except_handler_always_retries(convs, maxh, id, attempt, max_retries, t) ==
    [convs |-> convs, pc |-> "backoff", result |-> None]

\* the except clause of the retry loop: apology after the last attempt,
\* otherwise on to the backoff sleep
except_handler(convs, maxh, id, attempt, max_retries, t) ==
    IF attempt = max_retries - 1
    THEN [convs |-> add_message(convs, maxh, id, "assistant", error_message, NoMetadata, t),
          pc |-> "done", result |-> error_message]
    ELSE [convs |-> convs, pc |-> "backoff", result |-> None]

\* a get_conversation_summary that counts every non-system message as a user message
get_conversation_summary_counts_replies(convs, id) ==
    LET conversation == get_conversation(convs, id)
        user_messages == SelectSeq(conversation, NotSystem)
        assistant_messages == SelectSeq(conversation, IsAssistant)
    IN  IF conversation = <<>>
        THEN [message_count |-> 0, participants |-> {}]
        ELSE [message_count |-> Len(conversation),
              user_messages |-> Len(user_messages),
              assistant_messages |-> Len(assistant_messages),
              participants |-> { MsgGet(user_messages[i], "user_name") :
                                   i \in { j \in 1..Len(user_messages) :
                                             Truthy(MsgGet(user_messages[j], "user_name")) } }]

\* a get_conversation_summary that leaves the system message out of message_count
get_conversation_summary_no_system(convs, id) ==
    LET conversation == get_conversation(convs, id)
        user_messages == SelectSeq(conversation, IsUser)
        assistant_messages == SelectSeq(conversation, IsAssistant)
    IN  IF conversation = <<>>
        THEN [message_count |-> 0, participants |-> {}]
        ELSE [message_count |-> Len(SelectSeq(conversation, NotSystem)),
              user_messages |-> Len(user_messages),
              assistant_messages |-> Len(assistant_messages),
              participants |-> { MsgGet(user_messages[i], "user_name") :
                                   i \in { j \in 1..Len(user_messages) :
                                             Truthy(MsgGet(user_messages[j], "user_name")) } }]

\* AzureOpenAIService.get_conversation_summary
get_conversation_summary(convs, id) ==
    LET conversation == get_conversation(convs, id)
        user_messages == SelectSeq(conversation, IsUser)
        assistant_messages == SelectSeq(conversation, IsAssistant)
    IN  IF conversation = <<>>
        THEN [message_count |-> 0, participants |-> {}]
        ELSE [message_count |-> Len(conversation),
              user_messages |-> Len(user_messages),
              assistant_messages |-> Len(assistant_messages),
              participants |-> { MsgGet(user_messages[i], "user_name") :
                                   i \in { j \in 1..Len(user_messages) :
                                             Truthy(MsgGet(user_messages[j], "user_name")) } }]

Idle == req.pc \in {"idle", "done"}

RECURSIVE SumCalls(_)
SumCalls(S) == IF S = {} THEN 0
               ELSE LET c == CHOOSE x \in S : TRUE IN chatCalls[c] + SumCalls(S \ {c})

\* get_chat_response(message, id, user_name, system_message, max_retries)
\* is entered and runs up to the retry loop; the external service will fail
\* the first failFirst calls of this request and answer the ones after
\* (failFirst = max_retries: every call of the request fails)
ChatBegin(id, message, user_name, system_message, max_retries, failFirst) ==
    LET p == chat_prepare(conversations, max_history, id, message, user_name, system_message, now) IN
    /\ Idle
    /\ SumCalls(DOMAIN chatCalls) < MaxChatCalls
    /\ conversations' = p.convs
    /\ req' = [pc |-> "acquire", id |-> id, message |-> message, user_name |-> user_name,
               system_message |-> system_message, max_retries |-> max_retries,
               attempt |-> 0, messages |-> p.messages, result |-> None,
               calls |-> 0, failures |-> 0, failFirst |-> failFirst, sleeps |-> <<>>,
               acquired |-> 0, stored |-> p.convs, sent |-> <<>>,
               afterEmptyRead |-> lastOp.op = "summary" /\ lastOp.id = id /\ ~lastOp.existed,
               first |-> IF id \in DOMAIN conversations THEN "no"
                         ELSE IF chatCalls[id] > 0 THEN "after clear" ELSE "new",
               systemBefore |-> SelectSeq(get_conversation(conversations, id), IsSystem)]
    /\ chatCalls' = [chatCalls EXCEPT ![id] = @ + 1]
    /\ lastOp' = [op |-> "get_chat_response", id |-> id]
    /\ UNCHANGED <<max_history, limVars, now>>

\* range(max_retries) is exhausted: the return after the loop
ChatLoopExit ==
    /\ req.pc = "acquire"
    /\ req.attempt >= req.max_retries
    /\ req' = [req EXCEPT !.pc = "done", !.result = unexpected_error_message]
    /\ UNCHANGED <<memVars, limVars, now, chatCalls, lastOp>>

\* top of the try body: await self.rate_limiter.wait_if_needed()
ChatAcquire ==
    LET r == wait_if_needed(requests, max_requests, now)
        h == except_handler(conversations, max_history, req.id, req.attempt, req.max_retries, now)
    IN
    /\ req.pc = "acquire"
    /\ req.attempt < req.max_retries
    /\ requests' = r.requests
    /\ now' = now + r.slept
    /\ IF r.raised
       THEN /\ conversations' = h.convs
            /\ req' = [req EXCEPT !.pc = h.pc, !.result = h.result, !.failures = @ + 1,
                                  !.acquired = @ + 1]
            /\ UNCHANGED returns
       ELSE /\ req' = [req EXCEPT !.pc = "call", !.acquired = @ + 1]
            /\ returns' = Append(returns, [start |-> now, ret |-> now + r.slept, held |-> r.held])
            /\ UNCHANGED conversations
    /\ UNCHANGED <<max_history, max_requests, chatCalls, lastOp>>

\* self.client.chat.completions.create(...) returns a completion or raises
ChatCall(outcome) ==
    LET ok == on_success(conversations, max_history, req.id, outcome, now)
        h == except_handler(conversations, max_history, req.id, req.attempt, req.max_retries, now)
        next == IF outcome = "raise" THEN h ELSE ok
    IN
    /\ req.pc = "call"
    /\ (outcome = "raise") = (req.calls < req.failFirst)
    /\ conversations' = next.convs
    /\ req' = [req EXCEPT !.pc = next.pc, !.result = next.result,
                          !.calls = @ + 1,
                          !.failures = IF outcome = "raise" THEN @ + 1 ELSE @,
                          !.sent = Append(@, req.messages)]
    /\ UNCHANGED <<max_history, limVars, now, chatCalls, lastOp>>

\* a backoff that grows linearly with the attempt number
backoff_wait_time_linear(attempt) == 2 * attempt

\* wait_time = 2 ** attempt
backoff_wait_time(attempt) == Pow2(attempt)

\* await asyncio.sleep(2 ** attempt), then the next iteration
ChatBackoff ==
    /\ req.pc = "backoff"
    /\ now' = now + backoff_wait_time(req.attempt)
    /\ req' = [req EXCEPT !.pc = "acquire", !.attempt = @ + 1,
                          !.sleeps = Append(@, backoff_wait_time(req.attempt))]
    /\ UNCHANGED <<memVars, limVars, chatCalls, lastOp>>

\* AzureOpenAIService.clear_conversation(id), between two get_chat_response
\* calls (the locals of the call that has returned are gone)
ServiceClear(id) ==
    /\ Idle
    /\ conversations' = clear_conversation(conversations, id).convs
    /\ req' = NoReq
    /\ lastOp' = [op |-> "service.clear_conversation", id |-> id,
                  raised |-> clear_conversation(conversations, id).raised]
    /\ UNCHANGED <<max_history, limVars, now, chatCalls>>

\* state after AzureOpenAIService(): ConversationMemory() with the configured
\* max_conversation_history, RateLimiter() with its default
InitChat ==
    /\ InitMemory
    /\ max_requests = DEFAULT_MAX_REQUESTS
    /\ requests = <<>>
    /\ returns = <<>>
    /\ now = 0
    /\ req = NoReq
    /\ chatCalls = [c \in ConvIds |-> 0]
    /\ lastOp = NoOp

NextChat ==
    \/ \E a \in ChatInputs, max_retries \in 0..MaxRetriesBound :
          \E failFirst \in 0..max_retries :
             ChatBegin(a[1], a[2], a[3], a[4], max_retries, failFirst)
    \/ ChatLoopExit
    \/ ChatAcquire
    \/ \E outcome \in Outcomes : ChatCall(outcome)
    \/ ChatBackoff
    \/ \E id \in ConvIds : ServiceClear(id)

SpecChat == InitChat /\ [][NextChat]_vars

\* get_chat_response calls one after the other on a service whose limiter
\* is small enough to make them wait
LiveInput == <<"c1", "Hello", "John", None>>

InitChatLive ==
    /\ max_history = DEFAULT_MAX_HISTORY
    /\ conversations = <<>>
    /\ max_requests \in 1..MaxLimit
    /\ requests = <<>>
    /\ returns = <<>>
    /\ now = 0
    /\ req = NoReq
    /\ chatCalls = [c \in ConvIds |-> 0]
    /\ lastOp = NoOp

NextChatLive ==
    \/ \E max_retries \in 0..MaxRetriesBound :
          \E failFirst \in 0..max_retries :
             ChatBegin(LiveInput[1], LiveInput[2], LiveInput[3], LiveInput[4],
                       max_retries, failFirst)
    \/ ChatLoopExit
    \/ ChatAcquire
    \/ \E outcome \in Outcomes : ChatCall(outcome)
    \/ ChatBackoff

\* the event loop resumes a coroutine whose await is over: the limiter's
\* sleep and the backoff sleep end, the external call returns or raises
FairChat ==
    /\ WF_vars(ChatLoopExit)
    /\ WF_vars(ChatAcquire)
    /\ WF_vars(\E outcome \in Outcomes : ChatCall(outcome))
    /\ WF_vars(ChatBackoff)

SpecChatLive == InitChatLive /\ [][NextChatLive]_vars /\ FairChat

\* AzureOpenAIService.get_conversation_summary(id): reads, changes nothing
GetConversationSummary(id) ==
    /\ lastOp' = [op |-> "get_conversation_summary", id |-> id,
                  result |-> get_conversation_summary(conversations, id),
                  before |-> get_conversation(conversations, id),
                  beforeAll |-> conversations]
    /\ UNCHANGED <<memVars, limVars, now, req, chatCalls>>

Next ==
    \/ \E id \in ConvIds, a \in AddInputs : AddMessage(id, a[1], a[2], a[3])
    \/ \E id \in ConvIds, content \in SystemContents \cup {default_system_message} :
          SetSystemMessage(id, content)
    \/ \E id \in ConvIds : ClearConversation(id)
    \/ \E id \in ConvIds : GetConversation(id)
    \/ \E id \in ConvIds : GetConversationSummary(id)

Spec == Init /\ [][Next]_vars

InitLimiterSpec ==
    /\ InitLimiter
    /\ max_history = DEFAULT_MAX_HISTORY
    /\ conversations = <<>>
    /\ now = 0
    /\ req = NoReq
    /\ chatCalls = [c \in ConvIds |-> 0]
    /\ lastOp = NoOp

NextLimiter ==
    \/ WaitIfNeeded
    \/ \E d \in TickSteps : Tick(d)

SpecLimiter == InitLimiterSpec /\ [][NextLimiter]_vars

(* add_message with user/assistant roles only, on conversations whose *)
(* system message, if any, was set before the first add_message       *)
NextHistory ==
    \/ \E id \in ConvIds, a \in AddInputs :
          a[1] # "system" /\ AddMessage(id, a[1], a[2], a[3])
    \/ \E id \in ConvIds, content \in SystemContents \cup {default_system_message} :
          id \notin DOMAIN conversations /\ SetSystemMessage(id, content)

SpecHistory == Init /\ [][NextHistory]_vars

(* ------------------------------ app.py -------------------------------- *)
\* default of get_chat_response's max_retries, used by every HTTP chat request
DEFAULT_MAX_RETRIES == 3

\* data.get("conversation_id", f"api-{request.remote_addr}") for a local client
default_conversation_id == "api-127.0.0.1"
\* data.get("user_name", "API User")
default_user_name == "API User"
internal_server_error == "Internal server error"
message_required == "Message is required"
bad_request == "400 Bad Request: The browser (or proxy) sent a request that this server could not understand."
list_index_error == "list indices must be integers or slices, not str"

ApiConvIds == ConvIds \cup {default_conversation_id}

\* bodies posted to /api/chat with Content-Type application/json: text that is
\* not JSON, null, {}, an object without "message", two objects with
\* "message" (one relying on the defaults), and the array ["message"]
ChatBodies ==
    << [kind |-> "invalid"],
       [kind |-> "null"],
       [kind |-> "object", data |-> <<>>],
       [kind |-> "object", data |-> [conversation_id |-> "c1", user_name |-> "John"]],
       [kind |-> "object", data |-> [message |-> "Hello", conversation_id |-> "c1",
                                     user_name |-> "John"]],
       [kind |-> "object", data |-> [message |-> "Hello"]],
       [kind |-> "array", data |-> <<"message">>] >>

\* what the environment makes of POST /api/messages: the activity is handled,
\* or deserialize / the adapter raise an exception with this text
MessageOutcomes == {"ok", "Unauthorized Access. Request is not authorized", "boom"}

\* values a configuration property can have: unset (the '' default) or set
ConfigValues == {"", "configured"}
Configs == [azure_openai_endpoint : ConfigValues, azure_openai_api_key : ConfigValues,
            microsoft_app_id : ConfigValues, microsoft_app_password : ConfigValues]

\* request.get_json(): the parsed value, or BadRequest for text that is not JSON
get_json(body) ==
    IF body.kind = "invalid"
    THEN [raised |-> TRUE, e |-> bad_request, value |-> None]
    ELSE [raised |-> FALSE, e |-> None, value |-> body]

\* Python's "not data" for a parsed JSON value
PyNot(value) == value.kind = "null" \/ DOMAIN value.data = {}

\* Python's "key in data" for a dict (keys) or a list (elements)
PyIn(key, value) ==
    IF value.kind = "object" THEN key \in DOMAIN value.data
    ELSE \E i \in DOMAIN value.data : value.data[i] = key

\* dict.get(key, default)
DictGet(d, key, default) == IF key \in DOMAIN d THEN d[key] ELSE default

\* chat() up to the call of get_chat_response: an exception caught by the
\* handler's except clause, the 400 return, or the arguments of the call
chat_request(body) ==
    LET j == get_json(body) IN
    IF j.raised THEN [next |-> "except", e |-> j.e]
    ELSE IF PyNot(j.value) \/ ~PyIn("message", j.value)
    THEN [next |-> "return", status |-> 400, response |-> [error |-> message_required]]
    ELSE IF j.value.kind = "array" THEN [next |-> "except", e |-> list_index_error]
    ELSE [next |-> "call",
          message |-> j.value.data["message"],
          conversation_id |-> DictGet(j.value.data, "conversation_id", default_conversation_id),
          user_name |-> DictGet(j.value.data, "user_name", default_user_name)]

\* the except clause of chat, clear_conversation and conversation_summary
except_response(e) == [status |-> 500, response |-> [error |-> internal_server_error]]

\* the except clause of messages
messages_except_response(e) == [status |-> 500, response |-> [error |-> e]]

\* a health check that does not look at the bot password
health_check_ignores_password(cfg) ==
    LET no_openai == ~Truthy(cfg.azure_openai_endpoint) \/ ~Truthy(cfg.azure_openai_api_key)
        no_bot == ~Truthy(cfg.microsoft_app_id)
        status == IF no_openai \/ no_bot THEN "degraded" ELSE "healthy"
    IN  [status |-> IF status = "healthy" THEN 200 ELSE 503,
         response |->
            [status |-> status,
             service |-> "Azure Teams AI Chatbot",
             version |-> "1.0.0",
             components |->
                [flask |-> "ok",
                 bot_framework |-> IF no_bot THEN "not_configured" ELSE "ok",
                 azure_openai |-> IF no_openai THEN "not_configured" ELSE "ok",
                 configuration |-> IF Truthy(cfg.microsoft_app_id) THEN "ok" ELSE "incomplete"]]]

\* health_check(): the try body, for the configuration values read by it
health_check(cfg) ==
    LET no_openai == ~Truthy(cfg.azure_openai_endpoint) \/ ~Truthy(cfg.azure_openai_api_key)
        no_bot == ~Truthy(cfg.microsoft_app_id) \/ ~Truthy(cfg.microsoft_app_password)
        status == IF no_openai \/ no_bot THEN "degraded" ELSE "healthy"
    IN  [status |-> IF status = "healthy" THEN 200 ELSE 503,
         response |->
            [status |-> status,
             service |-> "Azure Teams AI Chatbot",
             version |-> "1.0.0",
             components |->
                [flask |-> "ok",
                 bot_framework |-> IF no_bot THEN "not_configured" ELSE "ok",
                 azure_openai |-> IF no_openai THEN "not_configured"
                                  ELSE IF Truthy(cfg.azure_openai_endpoint) THEN "ok"
                                  ELSE "not_configured",
                 configuration |-> IF Truthy(cfg.microsoft_app_id) THEN "ok" ELSE "incomplete"]]]

\* POST /api/chat with body ChatBodies[i]: answered at once (400 or the except
\* clause), or get_chat_response is entered with the default max_retries
ApiChat(i, failFirst) ==
    LET r == chat_request(ChatBodies[i]) IN
    /\ req.pc = "idle"
    /\ IF r.next = "call"
       THEN ChatBegin(r.conversation_id, r.message, r.user_name, None,
                      DEFAULT_MAX_RETRIES, failFirst)
       ELSE /\ failFirst = 0
            /\ lastOp' = [op |-> "chat", request |-> ChatBodies[i],
                          status |-> IF r.next = "return" THEN r.status
                                     ELSE except_response(r.e).status,
                          response |-> IF r.next = "return" THEN r.response
                                       ELSE except_response(r.e).response,
                          exception |-> IF r.next = "except" THEN r.e ELSE None,
                          called |-> FALSE]
            /\ UNCHANGED <<memVars, limVars, now, req, chatCalls>>

\* get_chat_response has returned (or raised) inside chat(): the response
ApiChatRespond ==
    /\ req.pc \in {"done", "raised"}
    /\ lastOp' = [op |-> "chat",
                  request |-> [kind |-> "object",
                               data |-> [message |-> req.message, conversation_id |-> req.id,
                                         user_name |-> req.user_name]],
                  status |-> IF req.pc = "done" THEN 200
                             ELSE except_response("get_chat_response raised").status,
                  response |-> IF req.pc = "done"
                               THEN [response |-> req.result, conversation_id |-> req.id]
                               ELSE except_response("get_chat_response raised").response,
                  exception |-> IF req.pc = "done" THEN None ELSE "get_chat_response raised",
                  called |-> TRUE]
    /\ req' = NoReq
    /\ UNCHANGED <<memVars, limVars, now, chatCalls>>

\* POST /api/conversation/<id>/clear
ApiClear(id) ==
    LET c == clear_conversation(conversations, id) IN
    /\ req.pc = "idle"
    /\ conversations' = c.convs
    /\ lastOp' = [op |-> "clear", id |-> id,
                  status |-> IF c.raised THEN except_response("KeyError").status ELSE 200,
                  response |-> IF c.raised THEN except_response("KeyError").response
                               ELSE [status |-> "cleared", conversation_id |-> id],
                  exception |-> IF c.raised THEN "KeyError" ELSE None]
    /\ UNCHANGED <<max_history, limVars, now, req, chatCalls>>

\* GET /api/conversation/<id>/summary
ApiSummary(id) ==
    /\ req.pc = "idle"
    /\ lastOp' = [op |-> "summary", id |-> id, status |-> 200,
                  response |-> get_conversation_summary(conversations, id),
                  conversation |-> get_conversation(conversations, id),
                  existed |-> id \in DOMAIN conversations,
                  exception |-> None]
    /\ UNCHANGED <<memVars, limVars, now, req, chatCalls>>

\* GET /health, with the configuration as the handler reads it
ApiHealth(cfg) ==
    /\ req.pc = "idle"
    /\ lastOp' = [op |-> "health", config |-> cfg,
                  status |-> health_check(cfg).status,
                  response |-> health_check(cfg).response,
                  exception |-> None]
    /\ UNCHANGED <<memVars, limVars, now, req, chatCalls>>

\* POST /api/messages for an activity that does not reach the bot's message
\* handler (a conversation update, or one the adapter rejects by raising)
ApiMessages(outcome) ==
    /\ req.pc = "idle"
    /\ lastOp' = [op |-> "messages",
                  status |-> IF outcome = "ok" THEN 200
                             ELSE messages_except_response(outcome).status,
                  response |-> IF outcome = "ok" THEN [status |-> "ok"]
                               ELSE messages_except_response(outcome).response,
                  exception |-> IF outcome = "ok" THEN None ELSE outcome]
    /\ UNCHANGED <<memVars, limVars, now, req, chatCalls>>

\* the application after import: the global openai_service with the default
\* history length and rate limit
InitApi ==
    /\ max_history = DEFAULT_MAX_HISTORY
    /\ conversations = <<>>
    /\ max_requests = DEFAULT_MAX_REQUESTS
    /\ requests = <<>>
    /\ returns = <<>>
    /\ now = 0
    /\ req = NoReq
    /\ chatCalls = [c \in ApiConvIds |-> 0]
    /\ lastOp = NoOp

NextApi ==
    \/ \E i \in DOMAIN ChatBodies, failFirst \in 0..DEFAULT_MAX_RETRIES : ApiChat(i, failFirst)
    \/ ChatAcquire
    \/ \E outcome \in Outcomes : ChatCall(outcome)
    \/ ChatBackoff
    \/ ApiChatRespond
    \/ \E id \in ApiConvIds : ApiClear(id)
    \/ \E id \in ApiConvIds : ApiSummary(id)
    \/ \E cfg \in Configs : ApiHealth(cfg)
    \/ \E outcome \in MessageOutcomes : ApiMessages(outcome)

SpecApi == InitApi /\ [][NextApi]_vars

(* --------- get_chat_response on several threads, one service ---------- *)
\* the request threads, the conversation they all use, and what each sends
Threads == {1, 2}
ConcId == "c1"
ConcMessages == <<"Hello", "m2">>
ConcUsers == <<"John", "Ann">>
\* the max_retries values the concurrent requests are made with
ConcRetries == {1, 2}

ThreadIdle == [pc |-> "idle"]

\* get_chat_response is entered on thread t.  When the first-turn condition
\* holds, set_system_message runs up to the evaluation of its list
\* comprehension: the key exists and the filtered list is a local value
ConcBegin(t, max_retries, failFirst) ==
    LET first == Truthy(None) \/ ConcId \notin DOMAIN conversations
        ensured == IF ConcId \in DOMAIN conversations THEN conversations
                   ELSE [c \in DOMAIN conversations \cup {ConcId} |->
                           IF c = ConcId THEN <<>> ELSE conversations[c]]
    IN
    /\ req[t].pc = "idle"
    /\ conversations' = IF first THEN ensured ELSE conversations
    /\ req' = [req EXCEPT ![t] =
                 [pc |-> IF first THEN "set_system_write" ELSE "add_user",
                  message |-> ConcMessages[t], user_name |-> ConcUsers[t],
                  max_retries |-> max_retries, failFirst |-> failFirst,
                  attempt |-> 0, calls |-> 0, wake |-> 0,
                  filtered |-> IF first THEN SelectSeq(ensured[ConcId], NotSystem) ELSE <<>>,
                  messages |-> <<>>, result |-> None]]
    /\ UNCHANGED <<max_history, limVars, now, chatCalls, lastOp>>

\* set_system_message stores the filtered list and inserts the system
\* message at index 0
ConcSetSystemWrite(t) ==
    /\ req[t].pc = "set_system_write"
    /\ conversations' =
          [c \in DOMAIN conversations \cup {ConcId} |->
              IF c = ConcId
              THEN <<[role |-> "system", content |-> default_system_message,
                      timestamp |-> now]>> \o req[t].filtered
              ELSE conversations[c]]
    /\ req' = [req EXCEPT ![t].pc = "add_user"]
    /\ UNCHANGED <<max_history, limVars, now, chatCalls, lastOp>>

\* add_message of the user message, then the message list for the API
ConcAddUser(t) ==
    LET convs2 == add_message(conversations, max_history, ConcId, "user",
                              req[t].message, req[t].user_name, now)
        conversation_history == get_conversation(convs2, ConcId)
    IN
    /\ req[t].pc = "add_user"
    /\ conversations' = convs2
    /\ req' = [req EXCEPT ![t].pc = "acquire",
                          ![t].messages = [i \in 1..Len(conversation_history) |->
                                             [role |-> conversation_history[i].role,
                                              content |-> conversation_history[i].content]]]
    /\ UNCHANGED <<max_history, limVars, now, chatCalls, lastOp>>

\* await self.rate_limiter.wait_if_needed() on thread t
ConcAcquire(t) ==
    LET r == wait_if_needed(requests, max_requests, now)
        h == except_handler(conversations, max_history, ConcId, req[t].attempt,
                            req[t].max_retries, now)
    IN
    /\ req[t].pc = "acquire"
    /\ requests' = r.requests
    /\ now' = now + r.slept
    /\ IF r.raised
       THEN /\ conversations' = h.convs
            /\ req' = [req EXCEPT ![t].pc = h.pc, ![t].result = h.result]
       ELSE /\ req' = [req EXCEPT ![t].pc = "call"]
            /\ UNCHANGED conversations
    /\ UNCHANGED <<max_history, max_requests, returns, chatCalls, lastOp>>

\* the completion call of thread t returns or raises
ConcCall(t, outcome) ==
    LET ok == on_success(conversations, max_history, ConcId, outcome, now)
        h == except_handler(conversations, max_history, ConcId, req[t].attempt,
                            req[t].max_retries, now)
        next == IF outcome = "raise" THEN h ELSE ok
    IN
    /\ req[t].pc = "call"
    /\ (outcome = "raise") = (req[t].calls < req[t].failFirst)
    /\ conversations' = next.convs
    /\ req' = [req EXCEPT ![t].pc = next.pc, ![t].result = next.result,
                          ![t].calls = @ + 1]
    /\ UNCHANGED <<max_history, limVars, now, chatCalls, lastOp>>

\* await asyncio.sleep(2 ** attempt) begins: the thread is suspended
ConcBackoff(t) ==
    /\ req[t].pc = "backoff"
    /\ req' = [req EXCEPT ![t].pc = "sleeping",
                          ![t].wake = now + backoff_wait_time(req[t].attempt)]
    /\ UNCHANGED <<memVars, limVars, now, chatCalls, lastOp>>

\* the sleep of thread t is over: no earlier than its wake-up time
ConcWake(t) ==
    /\ req[t].pc = "sleeping"
    /\ now' = IF now < req[t].wake THEN req[t].wake ELSE now
    /\ req' = [req EXCEPT ![t].pc = "acquire", ![t].attempt = @ + 1]
    /\ UNCHANGED <<memVars, limVars, chatCalls, lastOp>>

\* clear_conversation(ConcId) from another request, at any moment
ConcClear ==
    /\ conversations' = clear_conversation(conversations, ConcId).convs
    /\ lastOp' = [op |-> "concurrent", cleared |-> TRUE]
    /\ UNCHANGED <<max_history, limVars, now, req, chatCalls>>

InitConcurrent ==
    /\ max_history = DEFAULT_MAX_HISTORY
    /\ conversations = <<>>
    /\ max_requests = DEFAULT_MAX_REQUESTS
    /\ requests = <<>>
    /\ returns = <<>>
    /\ now = 0
    /\ req = [t \in Threads |-> ThreadIdle]
    /\ chatCalls = [c \in ConvIds |-> 0]
    /\ lastOp = [op |-> "concurrent", cleared |-> FALSE]

NextConcurrent ==
    \/ \E t \in Threads, max_retries \in ConcRetries :
          \E failFirst \in 0..max_retries : ConcBegin(t, max_retries, failFirst)
    \/ \E t \in Threads : ConcSetSystemWrite(t)
    \/ \E t \in Threads : ConcAddUser(t)
    \/ \E t \in Threads : ConcAcquire(t)
    \/ \E t \in Threads, outcome \in Outcomes : ConcCall(t, outcome)
    \/ \E t \in Threads : ConcBackoff(t)
    \/ \E t \in Threads : ConcWake(t)
    \/ ConcClear

SpecConcurrent == InitConcurrent /\ [][NextConcurrent]_vars

(* ------------- wait_if_needed on several threads, one limiter --------- *)
\* wait_if_needed is entered on thread t: now is read and the list
\* comprehension over self.requests is evaluated into a local list
LimEnter(t) ==
    /\ req[t].pc = "idle"
    /\ Len(returns) + Cardinality({u \in Threads : req[u].pc # "idle"}) < MaxAcquires
    /\ req' = [req EXCEPT ![t] =
                 [pc |-> "prune_write", now |-> now, wake |-> 0,
                  pruned |-> SelectSeq(requests, LAMBDA req_time : now - req_time < WINDOW)]]
    /\ UNCHANGED <<memVars, limVars, now, chatCalls, lastOp>>

\* self.requests = [...]: the local list replaces the shared one
LimPruneWrite(t) ==
    /\ req[t].pc = "prune_write"
    /\ requests' = req[t].pruned
    /\ req' = [req EXCEPT ![t].pc = "check"]
    /\ UNCHANGED <<memVars, max_requests, returns, now, chatCalls, lastOp>>

\* the if statement: with a full window the thread computes its wait and
\* goes to sleep (min() of an empty list raises and ends the call)
LimCheck(t) ==
    LET full == Len(requests) >= max_requests
        oldest_request == PyMin(requests)
        wait_time == WINDOW - (req[t].now - oldest_request.value)
    IN
    /\ req[t].pc = "check"
    /\ req' = [req EXCEPT
                 ![t].pc = IF full /\ oldest_request.raised THEN "idle"
                           ELSE IF full /\ wait_time > 0 THEN "sleeping"
                           ELSE "append",
                 ![t].wake = IF full /\ ~oldest_request.raised /\ wait_time > 0
                             THEN now + wait_time ELSE 0]
    /\ UNCHANGED <<memVars, limVars, now, chatCalls, lastOp>>

\* asyncio.sleep(wait_time) is over: no earlier than the wake-up time
LimWake(t) ==
    /\ req[t].pc = "sleeping"
    /\ now' = IF now < req[t].wake THEN req[t].wake ELSE now
    /\ req' = [req EXCEPT ![t].pc = "append"]
    /\ UNCHANGED <<memVars, limVars, chatCalls, lastOp>>

\* self.requests.append(now) and the return to the caller
LimAppend(t) ==
    /\ req[t].pc = "append"
    /\ requests' = Append(requests, req[t].now)
    /\ returns' = Append(returns, [start |-> req[t].now, ret |-> now, held |-> Len(req[t].pruned)])
    /\ req' = [req EXCEPT ![t] = ThreadIdle]
    /\ UNCHANGED <<memVars, max_requests, now, chatCalls, lastOp>>

InitLimiterThreads ==
    /\ InitLimiter
    /\ max_history = DEFAULT_MAX_HISTORY
    /\ conversations = <<>>
    /\ now = 0
    /\ req = [t \in Threads |-> ThreadIdle]
    /\ chatCalls = [c \in ConvIds |-> 0]
    /\ lastOp = NoOp

NextLimiterThreads ==
    \/ \E t \in Threads : LimEnter(t)
    \/ \E t \in Threads : LimPruneWrite(t)
    \/ \E t \in Threads : LimCheck(t)
    \/ \E t \in Threads : LimWake(t)
    \/ \E t \in Threads : LimAppend(t)

SpecLimiterThreads == InitLimiterThreads /\ [][NextLimiterThreads]_vars

(* ------------------- TeamsBot.on_message_activity --------------------- *)
\* str.strip() and str.lower() on a text given as its sequence of characters
Whitespace == {" ", "\t"}

RECURSIVE LStrip(_)
LStrip(text) ==
    IF text # <<>> /\ Head(text) \in Whitespace THEN LStrip(Tail(text)) ELSE text

RECURSIVE RStrip(_)
RStrip(text) ==
    IF text # <<>> /\ text[Len(text)] \in Whitespace
    THEN RStrip(SubSeq(text, 1, Len(text) - 1))
    ELSE text

Strip(text) == RStrip(LStrip(text))

LowerCase ==
    [A |-> "a", B |-> "b", C |-> "c", D |-> "d", E |-> "e", F |-> "f", G |-> "g",
     H |-> "h", I |-> "i", J |-> "j", K |-> "k", L |-> "l", M |-> "m", N |-> "n",
     O |-> "o", P |-> "p", Q |-> "q", R |-> "r", S |-> "s", T |-> "t", U |-> "u",
     V |-> "v", W |-> "w", X |-> "x", Y |-> "y", Z |-> "z"]

Lower(text) ==
    [i \in 1..Len(text) |-> IF text[i] \in DOMAIN LowerCase THEN LowerCase[text[i]] ELSE text[i]]

help_commands == { <<"/", "h", "e", "l", "p">>, <<"h", "e", "l", "p">> }
clear_commands == { <<"/", "c", "l", "e", "a", "r">>, <<"c", "l", "e", "a", "r">> }
summary_commands == { <<"/", "s", "u", "m", "m", "a", "r", "y">>,
                      <<"s", "u", "m", "m", "a", "r", "y">> }

\* activity.text of the message activities the bot is driven with: "/help",
\* " Help ", "summary", "/SUMMARY", "/clear", "Clear ", "Hello", "help me",
\* and a message without text (a card submit: text is None)
BotTexts ==
    << [kind |-> "str", chars |-> <<"/", "h", "e", "l", "p">>],
       [kind |-> "str", chars |-> <<" ", "H", "e", "l", "p", " ">>],
       [kind |-> "str", chars |-> <<"s", "u", "m", "m", "a", "r", "y">>],
       [kind |-> "str", chars |-> <<"/", "S", "U", "M", "M", "A", "R", "Y">>],
       [kind |-> "str", chars |-> <<"/", "c", "l", "e", "a", "r">>],
       [kind |-> "str", chars |-> <<"C", "l", "e", "a", "r", " ">>],
       [kind |-> "str", chars |-> <<"H", "e", "l", "l", "o">>],
       [kind |-> "str", chars |-> <<"h", "e", "l", "p", " ", "m", "e">>],
       [kind |-> "none"] >>

\* on_message_activity up to its branch: the command recognised, the call
\* of get_chat_response with the stripped text, or the except clause
\* (None has no strip())
bot_route(text) ==
    IF text.kind = "none" THEN [next |-> "except", user_message |-> <<>>]
    ELSE LET user_message == Strip(text.chars) IN
         IF Lower(user_message) \in help_commands
         THEN [next |-> "help", user_message |-> user_message]
         ELSE IF Lower(user_message) \in clear_commands
         THEN [next |-> "clear", user_message |-> user_message]
         ELSE IF Lower(user_message) \in summary_commands
         THEN [next |-> "summary", user_message |-> user_message]
         ELSE [next |-> "chat", user_message |-> user_message]

\* a message activity with text BotTexts[i] arrives in conversation id: a
\* command is handled at once, anything else enters get_chat_response
BotTurn(id, i, failFirst) ==
    LET r == bot_route(BotTexts[i]) IN
    /\ req.pc = "idle"
    /\ IF r.next = "chat"
       THEN ChatBegin(id, r.user_message, "John", None, DEFAULT_MAX_RETRIES, failFirst)
       ELSE /\ failFirst = 0
            /\ conversations' = IF r.next = "clear"
                                THEN clear_conversation(conversations, id).convs
                                ELSE conversations
            /\ lastOp' = [op |-> "bot", id |-> id, text |-> BotTexts[i], route |-> r.next,
                          before |-> conversations, modelCalls |-> 0,
                          reply |-> IF r.next = "summary"
                                    THEN get_conversation_summary(conversations, id)
                                    ELSE [sent |-> r.next]]
            /\ UNCHANGED <<max_history, limVars, now, req, chatCalls>>

\* get_chat_response has returned inside on_message_activity: the reply is sent
BotReply ==
    /\ req.pc \in {"done", "raised"}
    /\ lastOp' = [op |-> "bot", id |-> req.id,
                  text |-> [kind |-> "str", chars |-> req.message],
                  route |-> IF req.pc = "done" THEN "chat" ELSE "except",
                  before |-> req.stored, modelCalls |-> 1,
                  reply |-> [sent |-> req.result]]
    /\ req' = NoReq
    /\ UNCHANGED <<memVars, limVars, now, chatCalls>>

NextBot ==
    \/ \E id \in ConvIds, i \in DOMAIN BotTexts, failFirst \in 0..DEFAULT_MAX_RETRIES :
          BotTurn(id, i, failFirst)
    \/ ChatAcquire
    \/ \E outcome \in Outcomes : ChatCall(outcome)
    \/ ChatBackoff
    \/ BotReply

SpecBot == InitApi /\ [][NextBot]_vars

(* ------------------ properties of ConversationMemory ------------------ *)
SystemCount(history) == Len(SelectSeq(history, IsSystem))
Stored(id) == get_conversation(conversations, id)
InSeq(x, seq) == \E i \in 1..Len(seq) : seq[i] = x

\* C1: after every add_message call (user/assistant roles, system message set
\* beforehand or not) the stored history holds at most max_history messages and
\* the system message that was set is still present.  Stated under SpecHistory.
C1_HistoryWithinMax ==
    lastOp.op = "add_message" =>
        /\ Len(Stored(lastOp.id)) <= max_history
        /\ \A i \in 1..Len(lastOp.before) :
              IsSystem(lastOp.before[i]) => InSeq(lastOp.before[i], Stored(lastOp.id))

\* C8: after clear_conversation(id), get_conversation(id) is empty and the store
\* has no entry for id; clearing an id without state raises nothing and leaves
\* the store as it was.
C8_ClearRemovesState ==
    lastOp.op = "clear_conversation" =>
        /\ get_conversation(conversations, lastOp.id) = <<>>
        /\ lastOp.id \notin DOMAIN conversations
        /\ ~lastOp.raised
        /\ \A c \in ConvIds \ {lastOp.id} :
              /\ (c \in DOMAIN conversations) = (c \in DOMAIN lastOp.beforeAll)
              /\ get_conversation(conversations, c) = get_conversation(lastOp.beforeAll, c)
        /\ (~lastOp.existed => conversations = lastOp.beforeAll)

\* a clear of a conversation that held a system message and other messages
C8_Witness ==
    /\ lastOp.op = "clear_conversation"
    /\ lastOp.existed
    /\ SystemCount(lastOp.before) >= 1
    /\ Len(lastOp.before) >= 2
    /\ DOMAIN conversations # {}

\* C9: after set_system_message(id, c) the history holds exactly one system
\* message, with content c, at index 0, and the non-system messages are the
\* same as before, in the same order.
C9_SingleSystemAtHead ==
    lastOp.op = "set_system_message" =>
        LET h == Stored(lastOp.id) IN
        /\ lastOp.id \in DOMAIN conversations
        /\ SystemCount(h) = 1
        /\ IsSystem(h[1])
        /\ h[1].content = lastOp.content
        /\ SelectSeq(h, NotSystem) = SelectSeq(lastOp.before, NotSystem)

\* set_system_message on a history holding two system messages and a user message
C9_Witness ==
    /\ lastOp.op = "set_system_message"
    /\ SystemCount(lastOp.before) >= 2
    /\ Len(SelectSeq(lastOp.before, NotSystem)) >= 1
    /\ Stored(lastOp.id)[1].content # lastOp.before[1].content

\* the list add_message holds right after its append, before any trimming
Appended == Append(lastOp.before, lastOp.message)

\* add_message dropped none of the messages it held after the append
KeptInFull ==
    /\ Len(Stored(lastOp.id)) = Len(Appended)
    /\ \A i \in 1..Len(Appended) : InSeq(Appended[i], Stored(lastOp.id))

\* C11 as stated: add_message drops stored messages only when, after the
\* append, the number of non-system messages exceeds max_history; one system
\* message plus up to max_history non-system messages is kept in full.
C11_DropsOnlyWhenNonSystemExceedsMax ==
    (lastOp.op = "add_message"
       /\ Len(SelectSeq(Appended, NotSystem)) <= max_history) =>
        KeptInFull

\* C11 amended: add_message drops stored messages only when, after the append,
\* the total number of stored messages (system messages included) exceeds
\* max_history; a history of at most max_history messages in total is kept in full.
C11_DropsOnlyWhenTotalExceedsMax ==
    lastOp.op = "add_message" =>
        /\ Len(Appended) <= max_history => Stored(lastOp.id) = Appended
        /\ ~KeptInFull => Len(Appended) > max_history

\* an append that fills a history holding a system message exactly to max_history
C11_Witness ==
    /\ lastOp.op = "add_message"
    /\ max_history >= 2
    /\ SystemCount(lastOp.before) = 1
    /\ Len(Appended) = max_history
    /\ Stored(lastOp.id) = Appended

\* add_message found more than max_history messages after its append
Trimmed == lastOp.op = "add_message" /\ Len(Appended) > max_history

\* a is the tail of b
IsSuffix(a, b) ==
    /\ Len(a) <= Len(b)
    /\ a = SubSeq(b, Len(b) - Len(a) + 1, Len(b))

\* C18: whenever add_message trims a history, the non-system messages it
\* keeps are the most recently added ones in their original order (a suffix
\* of the non-system sequence), and the message just added is among those
\* kept, for every max_history >= 1 and every mix of roles.
C18_TrimKeepsNewest ==
    Trimmed =>
        /\ IsSuffix(SelectSeq(Stored(lastOp.id), NotSystem), SelectSeq(Appended, NotSystem))
        /\ InSeq(lastOp.message, Stored(lastOp.id))

\* a can be obtained from b by deleting elements
RECURSIVE IsSubseq(_, _)
IsSubseq(a, b) ==
    IF a = <<>> THEN TRUE
    ELSE IF b = <<>> THEN FALSE
    ELSE IF Head(a) = Head(b) THEN IsSubseq(Tail(a), Tail(b))
    ELSE IsSubseq(a, Tail(b))

\* C20 as stated: for every sequence of add_message calls with any roles
\* (system included), get_conversation returns the retained messages in the
\* order in which they were added: what is stored after an add_message is the
\* earlier list with the new message at its end, less the dropped messages.
C20_InsertionOrder ==
    lastOp.op = "add_message" =>
        IsSubseq(get_conversation(conversations, lastOp.id), Appended)

\* C20 amended: an add_message that does not trim leaves the earlier list with
\* the new message at its end; one that trims stores all system messages
\* first, in their earlier order, then the most recent non-system messages in
\* their earlier order.
C20_SystemFirstOnTrim ==
    lastOp.op = "add_message" =>
        LET result == get_conversation(conversations, lastOp.id) IN
        /\ ~Trimmed => result = Appended
        /\ Trimmed =>
              /\ result = SelectSeq(result, IsSystem) \o SelectSeq(result, NotSystem)
              /\ SelectSeq(result, IsSystem) = SelectSeq(Appended, IsSystem)
              /\ IsSuffix(SelectSeq(result, NotSystem), SelectSeq(Appended, NotSystem))

\* a system message added after a user message has been moved in front of it
C20_Witness ==
    /\ Trimmed
    /\ lastOp.role = "system"
    /\ Len(lastOp.before) >= 1
    /\ lastOp.before[Len(lastOp.before)].role = "user"
    /\ Stored(lastOp.id)[1] = lastOp.message
    /\ Stored(lastOp.id)[Len(Stored(lastOp.id))] = lastOp.before[Len(lastOp.before)]

\* C25: in every state reached by any sequence of add_message and
\* set_system_message calls on a conversation, in any order (set_system_message
\* on a history that already holds max_history messages included), the stored
\* history length is at most max_history.
C25_LengthWithinMaxAfterAnyCall ==
    lastOp.op \in {"add_message", "set_system_message"} =>
        Len(get_conversation(conversations, lastOp.id)) <= max_history

\* positions of the messages of a history that have this role
WithRole(history, role) == { i \in 1..Len(history) : history[i].role = role }

\* C15: for any non-empty stored history, get_conversation_summary returns
\* message_count = number of stored messages, user_messages = number with role
\* user, assistant_messages = number with role assistant, participants = the
\* set of distinct non-empty user_name values on user messages; the call does
\* not change the history.
C15_SummaryCountsAndParticipants ==
    (lastOp.op = "get_conversation_summary" /\ lastOp.before # <<>>) =>
        LET h == lastOp.before
            r == lastOp.result
            named == { i \in WithRole(h, "user") :
                         "user_name" \in DOMAIN h[i] /\ h[i].user_name \notin {None, ""} }
        IN  /\ r.message_count = Len(h)
            /\ r.user_messages = Cardinality(WithRole(h, "user"))
            /\ r.assistant_messages = Cardinality(WithRole(h, "assistant"))
            /\ r.participants = { h[i].user_name : i \in named }
            /\ conversations = lastOp.beforeAll
            /\ Stored(lastOp.id) = h

\* a summary of a three-message history with two participants
C15_Witness ==
    /\ lastOp.op = "get_conversation_summary"
    /\ lastOp.result.message_count = 3
    /\ lastOp.result.participants = {"John", "Ann"}
    /\ lastOp.result.user_messages = 2

(* ---------------------- properties of RateLimiter --------------------- *)
\* C6: limit+1 acquisitions issued one after another inside one 60-second
\* window, the first of them finding no recorded call: the first limit return
\* without waiting and the last does not return before the first is 60 s old.
C6_ExcessAcquisitionDelayed ==
    \A i \in 1..Len(returns) :
        (/\ returns[i].held = 0
         /\ i + max_requests <= Len(returns)
         /\ returns[i + max_requests].start - returns[i].start < WINDOW)
        => /\ \A j \in i..(i + max_requests - 1) : returns[j].ret = returns[j].start
           /\ returns[i + max_requests].ret - returns[i].start >= WINDOW

\* limit = 2: three acquisitions at different times inside one window, the third delayed
C6_Witness ==
    /\ max_requests = 2
    /\ Len(returns) >= 3
    /\ returns[1].start < returns[2].start
    /\ returns[2].start < returns[3].start
    /\ returns[3].start - returns[1].start < WINDOW
    /\ returns[3].ret > returns[3].start

\* C7: at most max_requests acquisitions return to their callers within any
\* interval of 60 seconds.
C7_AtMostLimitPerWindow ==
    \A i \in 1..Len(returns) :
        i + max_requests <= Len(returns)
        => returns[i + max_requests].ret - returns[i].ret >= WINDOW

\* C16: while fewer than max_requests acquisitions have been recorded in the
\* last 60 seconds, wait_if_needed returns without suspending and records
\* exactly one new timestamp; so after n <= max_requests acquisitions inside
\* one window (the first finding no recorded call) the limiter holds exactly n.
C16_FreeSlotNoWait ==
    /\ Len(returns) > 0 =>
          LET last == returns[Len(returns)] IN
          last.held < max_requests =>
              /\ last.ret = last.start
              /\ Len(requests) = last.held + 1
              /\ requests[Len(requests)] = last.start
    /\ \A i \in 1..Len(returns) :
          LET n == Len(returns) - i + 1 IN
          (/\ returns[i].held = 0
           /\ n <= max_requests
           /\ returns[Len(returns)].start - returns[i].start < WINDOW)
          => /\ Len(requests) = n
             /\ \A j \in i..Len(returns) : returns[j].ret = returns[j].start

\* limit = 2: two acquisitions at different times of one window, neither waits
C16_Witness ==
    /\ max_requests = 2
    /\ Len(returns) = 2
    /\ returns[1].start < returns[2].start
    /\ returns[2].start - returns[1].start < WINDOW
    /\ returns[2].held = 1
    /\ returns[2].ret = returns[2].start
    /\ Len(requests) = 2

\* C26: every timestamp the rate limiter records for an acquisition is the
\* time at which that acquisition returned to its caller (for a delayed
\* acquisition, the time after its wait).
C26_RecordedTimeIsReturnTime ==
    Len(returns) > 0 =>
        /\ Len(requests) > 0
        /\ requests[Len(requests)] = returns[Len(returns)].ret

(* ------------------ properties of AzureOpenAIService ------------------ *)
\* the last get_chat_response call has returned and nothing was cleared since
ChatDone == req.pc = "done" /\ lastOp.op = "get_chat_response"
\* the last external call of the request returned a completion
Succeeded == ChatDone /\ req.calls > req.failures
LastStored(id) == Stored(id)[Len(Stored(id))]
Summary(id) == get_conversation_summary(conversations, id)

\* C2 as stated: after one successful get_chat_response("Hello") on an id
\* without prior state the summary reports message_count = 2, user_messages = 1,
\* assistant_messages = 1, and the reply is stored as the assistant turn.
C2_SummaryAfterHello ==
    (Succeeded /\ req.first # "no" /\ req.message = "Hello") =>
        /\ Summary(req.id).message_count = 2
        /\ Summary(req.id).user_messages = 1
        /\ Summary(req.id).assistant_messages = 1
        /\ IsAssistant(LastStored(req.id))
        /\ LastStored(req.id).content = req.result

\* C2 amended: with max_history >= 3, after one successful
\* get_chat_response("Hello") on an id without prior state the summary reports
\* message_count = 3 (the system message is counted), user_messages = 1,
\* assistant_messages = 1, and the reply is stored as the assistant turn.
C2_SummaryCountsSystem ==
    (Succeeded /\ req.first # "no" /\ req.message = "Hello" /\ max_history >= 3) =>
        /\ Summary(req.id).message_count = 3
        /\ Summary(req.id).user_messages = 1
        /\ Summary(req.id).assistant_messages = 1
        /\ IsAssistant(LastStored(req.id))
        /\ LastStored(req.id).content = req.result

\* a first "Hello" answered at the first attempt, max_history = 3
C2_Witness ==
    /\ Succeeded
    /\ req.first = "new"
    /\ req.message = "Hello"
    /\ max_history = 3
    /\ req.result = "Hi there!"
    /\ Len(Stored(req.id)) = 3

\* C3: the external call fails exactly k < max_retries times and then succeeds:
\* get_chat_response returns the reply, has made exactly k+1 external calls and
\* has appended the reply, and no apology, as the assistant message.
C3_RetryThenSuccess ==
    (ChatDone /\ req.failFirst < req.max_retries) =>
        /\ req.result \in Outcomes \ {"raise"}
        /\ req.calls = req.failFirst + 1
        /\ IsAssistant(LastStored(req.id))
        /\ LastStored(req.id).content = req.result
        /\ \A i \in 1..Len(Stored(req.id)) :
              Stored(req.id)[i].content = error_message =>
                  InSeq([role |-> "assistant", content |-> error_message], req.messages)

\* two failures, then the reply at the third and last attempt
C3_Witness ==
    /\ ChatDone
    /\ req.failFirst = 2
    /\ req.max_retries = 3
    /\ req.calls = 3
    /\ req.result = "Hi there!"

\* C4: for every max_retries, if every external call fails, get_chat_response
\* returns the fallback apology after exactly max_retries external calls and
\* the apology is appended as the assistant message.
C4_AlwaysFailingGivesApology ==
    (ChatDone /\ req.failures = req.calls) =>
        /\ req.result = error_message
        /\ req.calls = req.max_retries
        /\ IsAssistant(LastStored(req.id))
        /\ LastStored(req.id).content = error_message

\* C5: no failure of the external call surfaces as an exception from
\* get_chat_response; a call that has ended has returned a string.
C5_NeverRaises ==
    /\ req.pc # "raised"
    /\ req.pc = "done" =>
          req.result \in (Outcomes \ {"raise"}) \cup {error_message, unexpected_error_message}

\* every one of three attempts failed and the call has returned
C5_Witness ==
    /\ ChatDone
    /\ req.max_retries = 3
    /\ req.failures = 3
    /\ req.calls = 3
    /\ req.result = error_message

\* the backoff sleeps of one get_chat_response call, in order
BackoffSeconds == <<1, 2, 4, 8, 16>>

\* C12: after failed attempt a (0-based) that is not the last, get_chat_response
\* sleeps exactly 2^a seconds before the next attempt (1, 2, 4, ...); no backoff
\* sleep follows the final failed attempt or a successful attempt.
C12_ExponentialBackoff ==
    req.pc # "idle" =>
        /\ \A i \in 1..Len(req.sleeps) : req.sleeps[i] = BackoffSeconds[i]
        /\ req.pc \in {"acquire", "call"} => Len(req.sleeps) = req.failures
        /\ req.pc = "backoff" => Len(req.sleeps) = req.failures - 1
        /\ req.pc = "done" =>
              Len(req.sleeps) = IF req.calls > req.failures \/ req.failures = 0
                                THEN req.failures ELSE req.failures - 1

\* three attempts failed: sleeps of 1 and 2 seconds, none after the last failure
C12_Witness ==
    /\ ChatDone
    /\ req.max_retries = 3
    /\ req.failures = 3
    /\ req.sleeps = <<1, 2>>
    /\ req.result = error_message

\* C19: the message list get_chat_response passes to the external completion
\* call is exactly the role and content of every message stored for the
\* conversation at that moment, in stored order: it starts with the system
\* message and ends with the user message of the current call.
C19_ApiMessagesMirrorHistory ==
    req.pc = "call" =>
        /\ Len(req.messages) = Len(Stored(req.id))
        /\ \A i \in 1..Len(req.messages) :
              req.messages[i] = [role |-> Stored(req.id)[i].role,
                                 content |-> Stored(req.id)[i].content]
        /\ req.messages[1].role = "system"
        /\ req.messages[Len(req.messages)] = [role |-> "user", content |-> req.message]

\* the retried external call of a second turn: system message, an earlier
\* exchange and the new user message
C19_Witness ==
    /\ req.pc = "call"
    /\ req.attempt = 1
    /\ req.first = "no"
    /\ Len(req.messages) >= 3
    /\ req.messages[1].role = "system"
    /\ req.messages[Len(req.messages)].content = req.message

\* role and content of every message of a history, in order
RoleContent(history) ==
    [i \in 1..Len(history) |-> [role |-> history[i].role, content |-> history[i].content]]

\* C23: for every max_retries and every outcome pattern of the external call,
\* a completed get_chat_response call has appended exactly one user message
\* (the caller's) and, after it, exactly one assistant message whose content
\* is the string returned, when max_history is large enough that nothing is
\* trimmed: the history is the list that was sent plus that one reply.
C23_OneUserOneAssistantPerCall ==
    (ChatDone /\ Len(req.messages) + 1 <= max_history) =>
        /\ req.messages[Len(req.messages)] = [role |-> "user", content |-> req.message]
        /\ RoleContent(Stored(req.id)) =
              Append(req.messages, [role |-> "assistant", content |-> req.result])

\* C24: a failed attempt leaves the conversation store unchanged: between the
\* append of the user message and the final outcome, failed attempts and
\* backoff sleeps add, remove or reorder nothing, and every retry sends the
\* message list that the first attempt sent.
C24_FailedAttemptsLeaveStore ==
    req.pc \in {"acquire", "call", "backoff"} =>
        /\ conversations = req.stored
        /\ \A i \in 1..Len(req.sent) : req.sent[i] = req.sent[1]
        /\ Len(req.sent) = req.calls

\* the third attempt is under way after two failures and one backoff each
C24_Witness ==
    /\ req.pc = "call"
    /\ req.attempt = 2
    /\ req.failures = 2
    /\ Len(req.sent) = 2
    /\ conversations = req.stored

\* C10: the first get_chat_response for an id without stored state leaves a
\* history whose first message is the system message, carrying the supplied
\* system_message or else the default; a later call without system_message
\* leaves the existing system message as it was.
C10_SystemMessageOnFirstTurn ==
    (req.pc # "idle" /\ lastOp.op = "get_chat_response") =>
        LET h == Stored(req.id) IN
        /\ req.first # "no" =>
              /\ h # <<>>
              /\ IsSystem(h[1])
              /\ h[1].content = IF Truthy(req.system_message) THEN req.system_message
                                ELSE default_system_message
        /\ (req.first = "no" /\ ~Truthy(req.system_message)) =>
              SelectSeq(h, IsSystem) = req.systemBefore

\* the first call after a clear of an id that had carried a custom system
\* message, made without system_message, has returned
C10_Witness ==
    /\ ChatDone
    /\ req.first = "after clear"
    /\ ~Truthy(req.system_message)
    /\ Stored(req.id)[1].content = default_system_message
    /\ lastOp.id = req.id

(* ------------------------ properties of app.py ------------------------ *)
\* a chat body the handler should reject: not JSON, or an object without "message"
Malformed(body) ==
    \/ body.kind = "invalid"
    \/ body.kind = "object" /\ "message" \notin DOMAIN body.data

\* C13: POST /api/chat with a malformed body (not valid JSON, an empty JSON
\* object, or JSON without a message field) is answered with a 400-class
\* status and an error text, never with a 500 and never by calling the
\* model service.
C13_MalformedBodyGets400 ==
    (lastOp.op = "chat" /\ Malformed(lastOp.request)) =>
        /\ lastOp.status \in 400..499
        /\ "error" \in DOMAIN lastOp.response
        /\ ~lastOp.called

\* C14: whenever a request handler (messages, chat, clear, summary) hits an
\* unexpected internal exception, the response is a 500-class result whose
\* body is the same generic error text whatever the exception's message.
C14_GenericErrorBody ==
    (lastOp.op \in {"messages", "chat", "clear", "summary"} /\ lastOp.exception # None) =>
        /\ lastOp.status \in 500..599
        /\ lastOp.response = [error |-> internal_server_error]

\* C28: get_conversation and get_conversation_summary on an id with no stored
\* history return the empty result (empty sequence; message_count 0 with empty
\* participants) and create no entry for that id, so a get_chat_response
\* issued afterwards is still treated as the first turn and installs the
\* system message.
C28_ReadOfUnknownIdCreatesNothing ==
    /\ (lastOp.op = "summary" /\ ~lastOp.existed) =>
          /\ lastOp.conversation = <<>>
          /\ lastOp.response = [message_count |-> 0, participants |-> {}]
          /\ lastOp.id \notin DOMAIN conversations
    /\ (req.pc # "idle" /\ req.afterEmptyRead) =>
          /\ req.first # "no"
          /\ req.messages[1] = [role |-> "system", content |-> default_system_message]
          /\ Stored(req.id)[1].role = "system"
          /\ Stored(req.id)[1].content = default_system_message

\* a chat request that followed a summary of the same, unknown id has returned
C28_Witness ==
    /\ req.pc = "done"
    /\ req.afterEmptyRead
    /\ req.first = "new"
    /\ Stored(req.id)[1].content = default_system_message
    /\ Len(Stored(req.id)) = 3

\* every one of the four configuration values read by health_check is set
AllConfigured(cfg) == \A k \in DOMAIN cfg : Truthy(cfg[k])

\* C17: GET /health returns status "healthy" with HTTP 200 exactly when the
\* endpoint, the API key, the app id and the app password are all configured;
\* if any of the four is missing it returns "degraded" with HTTP 503; in both
\* cases the body carries status, service and components.
C17_HealthReflectsConfiguration ==
    lastOp.op = "health" =>
        /\ AllConfigured(lastOp.config) <=>
              (lastOp.response.status = "healthy" /\ lastOp.status = 200)
        /\ ~AllConfigured(lastOp.config) =>
              (lastOp.response.status = "degraded" /\ lastOp.status = 503)
        /\ {"status", "service", "components"} \subseteq DOMAIN lastOp.response

\* only the bot password is missing: degraded, 503
C17_Witness ==
    /\ lastOp.op = "health"
    /\ lastOp.config.microsoft_app_password = ""
    /\ Truthy(lastOp.config.azure_openai_endpoint)
    /\ Truthy(lastOp.config.azure_openai_api_key)
    /\ Truthy(lastOp.config.microsoft_app_id)
    /\ lastOp.status = 503
    /\ lastOp.response.status = "degraded"

(* --------------- properties of concurrent requests -------------------- *)
\* every thread has made its request and got its answer
AllReturned == \A t \in Threads : req[t].pc = "done"

\* no thread is inside a ConversationMemory method
NoneInsideMemory ==
    \A t \in Threads : req[t].pc \in {"idle", "acquire", "call", "backoff", "sleeping", "done"}

\* C21: two requests run get_chat_response concurrently for the same
\* conversation id and no update is lost: once both have returned, the stored
\* history contains both user messages and both assistant replies.
C21_NoLostUpdate ==
    (AllReturned /\ ~lastOp.cleared) =>
        /\ \A t \in Threads :
              \E i \in WithRole(Stored(ConcId), "user") :
                 Stored(ConcId)[i].content = req[t].message
        /\ \A t \in Threads :
              \E i \in WithRole(Stored(ConcId), "assistant") :
                 Stored(ConcId)[i].content = req[t].result
        /\ Cardinality(WithRole(Stored(ConcId), "assistant")) = Cardinality(Threads)

\* C22: in every state reachable by any interleaving of get_chat_response and
\* clear_conversation requests, every conversation present in the store
\* contains exactly one system message, at index 0.
C22_OneSystemMessageAlways ==
    NoneInsideMemory =>
        \A id \in DOMAIN conversations :
            /\ SystemCount(conversations[id]) = 1
            /\ conversations[id][1].role = "system"

\* no thread is inside wait_if_needed
LimiterQuiet == \A t \in Threads : req[t].pc = "idle"

\* C27: several requests execute wait_if_needed concurrently on the shared
\* limiter and no recorded call is lost: once all of them have returned, the
\* list contains one timestamp for each acquisition made within the last 60 s.
C27_NoLostTimestamp ==
    LimiterQuiet =>
        Len(SelectSeq(requests, LAMBDA req_time : now - req_time < WINDOW)) =
        Cardinality({i \in 1..Len(returns) : now - returns[i].start < WINDOW})

(* ---------------------- properties of TeamsBot ------------------------ *)
\* the stripped, lower-cased text of the activity is one of these commands
TextIn(text, commands) == text.kind = "str" /\ Lower(Strip(text.chars)) \in commands

\* C29: a Teams message whose stripped, lower-cased text is one of /help, help,
\* /summary, summary, /clear or clear is never forwarded to the model and never
\* appended to the history: help and summary leave the store unchanged, clear
\* removes exactly that conversation's state; every other message results in
\* exactly one get_chat_response call for that conversation id.
C29_CommandsBypassModel ==
    lastOp.op = "bot" =>
        /\ TextIn(lastOp.text, help_commands \cup summary_commands) =>
              (lastOp.modelCalls = 0 /\ conversations = lastOp.before)
        /\ TextIn(lastOp.text, clear_commands) =>
              /\ lastOp.modelCalls = 0
              /\ DOMAIN conversations = DOMAIN lastOp.before \ {lastOp.id}
              /\ \A c \in DOMAIN conversations : conversations[c] = lastOp.before[c]
        /\ ~TextIn(lastOp.text, help_commands \cup summary_commands \cup clear_commands) =>
              lastOp.modelCalls = 1

(* ------------------ termination of get_chat_response ------------------ *)
InFlight == req.pc \in {"acquire", "call", "backoff"}

\* the limiter is acquired once before each external call
OneAcquirePerCall ==
    req.pc # "idle" => req.acquired = req.calls + (IF req.pc = "call" THEN 1 ELSE 0)

\* a limiter wait that happens is longer than 0 and at most 60 seconds
WaitsWithinWindow ==
    \A i \in 1..Len(returns) :
        returns[i].ret = returns[i].start
        \/ (returns[i].ret - returns[i].start > 0 /\ returns[i].ret - returns[i].start <= WINDOW)

PyMax(a, b) == IF a >= b THEN a ELSE b

\* C30 as stated: every get_chat_response call eventually returns; it makes
\* at most max_retries external calls, acquires the limiter exactly once before
\* each of them, sleeps in backoff at most max_retries - 1 times, and each
\* limiter wait is greater than 0 and at most 60 seconds.
C30_ReturnsWithinRetriesMinusOneSleeps ==
    /\ [](req.pc # "idle" =>
            /\ req.calls <= req.max_retries
            /\ OneAcquirePerCall
            /\ Len(req.sleeps) <= req.max_retries - 1
            /\ WaitsWithinWindow)
    /\ (InFlight ~> req.pc = "done")

\* C30 amended: every get_chat_response call eventually returns; it makes at
\* most max_retries external calls, acquires the limiter exactly once before
\* each of them, sleeps in backoff at most max(0, max_retries - 1) times, and
\* each limiter wait is greater than 0 and at most 60 seconds.
C30_ReturnsWithinBounds ==
    /\ [](req.pc # "idle" =>
            /\ req.calls <= req.max_retries
            /\ OneAcquirePerCall
            /\ Len(req.sleeps) <= PyMax(0, req.max_retries - 1)
            /\ WaitsWithinWindow)
    /\ (InFlight ~> req.pc = "done")

\* a call that failed until its last attempt has returned after max_retries - 1
\* backoff sleeps, and one of its acquisitions had to wait
C30_Witness ==
    /\ req.pc = "done"
    /\ req.max_retries >= 2
    /\ req.calls = req.max_retries
    /\ Len(req.sleeps) = req.max_retries - 1
    /\ \E i \in 1..Len(returns) : returns[i].ret > returns[i].start

====
